---- MODULE Spec2Model ----
(***************************************************************************)
(* Model of the serverless integration harness: the HTTP handler and the   *)
(* wrapper classes SqsWrapper, SsmWrapper, S3Wrapper and DynDb.            *)
(*                                                                         *)
(* The managed services are the environment: every request is answered     *)
(* some time after it was issued, with success or with an error.  A step   *)
(* of the model is what the code does between two yields to the event      *)
(* loop: a call runs up to its first await, and the answer to a request    *)
(* runs the call on up to its next await or to its end.  Several calls can *)
(* be in flight at once.                                                   *)
(***************************************************************************)
EXTENDS Integers, Sequences, FiniteSets, TLC

VARIABLES
    \* ---- handler (lambda) ----
    h_pc,          \* position of the handler: which await it is at
    errors,        \* the handler's local `errors` array
    failedSteps,   \* the steps whose promise rejected in this invocation
    response,      \* the value the handler resolved with
    h_settled,     \* "pending" | "resolved" | "rejected": the handler's promise
    h_reqs,        \* requests issued by the module and the invocation: <<[cmd, outcome]>>
    \* ---- calls of the wrappers ----
    calls,         \* slot -> the call in flight there, or the last one settled
    \* ---- SsmWrapper ----
    ssm,           \* the static SSMClient: NoClient, or the k-th one constructed
    cache,         \* NanoCache contents: parameter name -> value or NoEntry
    known,         \* name -> value first returned by a successful getParamValue
    \* ---- S3Wrapper ----
    s3Client,      \* the static S3Client (Undefined until initialise)
    \* ---- DynDb ----
    ddb,           \* the static DynamoDBClient (Undefined until init succeeds)
    table          \* table contents: a set of marshalled items

hvars == <<h_pc, errors, failedSteps, response, h_settled, h_reqs>>
wvars == <<ssm, cache, known, s3Client>>
dvars == <<ddb, table>>
vars == <<hvars, calls, wvars, dvars>>

(***************************************************************************)
(* Common values                                                           *)
(***************************************************************************)
Ok == "ok"
\* Errors a managed-service request can fail with.
ServiceErrors == {"AccessDenied", "Throttling"}
Outcomes == {Ok} \cup ServiceErrors
\* The outcome of a request that was issued and is not answered yet
InFlight == "in flight"

\* JavaScript `undefined` (for string-valued places).
Undefined == "<undefined>"
Client == "client"

\* A parameter's default applies when the argument is undefined
Default(arg, dflt) == IF arg = Undefined THEN dflt ELSE arg

(***************************************************************************)
(* Calls: a promise and the requests issued for it                         *)
(***************************************************************************)
\* Most calls in flight at once.
MaxCalls == 2
Slots == 1..MaxCalls

Pending == [kind |-> "pending"]
Resolved(value, parsed) == [kind |-> "resolved", value |-> value, parsed |-> parsed]
Rejected(err) == [kind |-> "rejected", error |-> err]
NoCall == [op |-> "none", reqs |-> <<>>, result |-> [kind |-> "none"]]

Request(cmd) == [cmd |-> cmd, outcome |-> InFlight]
\* The requests of a call, the one in flight answered
Answered(reqs, outcome) == [reqs EXCEPT ![Len(reqs)].outcome = outcome]

IsPending(call) == call.result = Pending
\* The slots with the call of slot c now as given.  The record of a settled
\* call is kept until the next call settles.
Put(cs, c, call) ==
    [d \in Slots |-> IF d = c THEN call
                     ELSE IF ~IsPending(call) /\ ~IsPending(cs[d]) THEN NoCall
                     ELSE cs[d]]
\* A caller starts its call in the first slot that holds no call in flight
NextSlot(cs) == CHOOSE c \in Slots :
                   /\ ~IsPending(cs[c])
                   /\ \A d \in Slots : ~IsPending(cs[d]) => c <= d

(***************************************************************************)
(* SqsWrapper                                                              *)
(***************************************************************************)
\* Longest message list a call is given.
MaxMsgs == 21
\* chunk(messages, 10)
ChunkSize == 10
QueueUrl == "QUEUE_URL"

\* The message lists a caller passes: n messages, bodies repeating with
\* period 3, group ids alternating in pairs.
MakeMessages(n) ==
    [i \in 1..n |-> [message |-> i % 3, groupId |-> (i \div 2) % 2]]

\* lodash chunk(array, size): consecutive slices of `size`, the last one shorter.
RECURSIVE chunk(_, _)
chunk(array, size) ==
    IF Len(array) = 0 THEN <<>>
    ELSE LET k == IF size < Len(array) THEN size ELSE Len(array)
         IN <<SubSeq(array, 1, k)>> \o chunk(SubSeq(array, k + 1, Len(array)), size)

\* `msg-${id}`
MsgId(id) == <<"msg-", id>>

\* Variant of Entries whose id is never incremented
EntriesWithoutIncrement(msgChunk) ==
    [j \in 1..Len(msgChunk) |->
        [Id |-> MsgId(0),
         MessageBody |-> msgChunk[j].message,
         MessageGroupId |-> msgChunk[j].groupId]]

\* let id = 0; msgChunk.map(message => ({ Id: `msg-${id++}`, ... }))
Entries(msgChunk) ==
    [j \in 1..Len(msgChunk) |->
        [Id |-> MsgId(j - 1),
         MessageBody |-> msgChunk[j].message,
         MessageGroupId |-> msgChunk[j].groupId]]

\* new SendMessageBatchCommand({ Entries: entries, QueueUrl: queueUrl })
SendMessageBatchCommand(entries, queueUrl) ==
    [name |-> "SendMessageBatch", Entries |-> entries, QueueUrl |-> queueUrl]

\* new SendMessageCommand({ MessageBody, QueueUrl, MessageGroupId })
SendMessageCommand(message, queueUrl, groupId) ==
    [name |-> "SendMessage", MessageBody |-> message, QueueUrl |-> queueUrl,
     MessageGroupId |-> groupId]

\* Variant of AfterSend that swallows a rejection and goes on with the loop
AfterSendCarryOn(outcome, remaining) ==
    IF remaining = <<>> THEN Resolved(Undefined, FALSE) ELSE Pending

\* await this.writeMessageBatch(command): a rejection leaves the loop and the
\* function with that error; otherwise the loop goes on to the next chunk,
\* or the function ends.
AfterSend(outcome, remaining) ==
    IF outcome # Ok THEN Rejected(outcome)
    ELSE IF remaining = <<>> THEN Resolved(Undefined, FALSE) ELSE Pending

\* writeMessageBatchToFifoQueue up to its first await: the chunks are made,
\* and the request of the first chunk is issued (inside writeMessageBatch);
\* with no message there is nothing to await and the call resolves.
BatchCall(queueUrl, messages) ==
    LET cs == chunk(messages, ChunkSize)
    IN [op |-> "writeMessageBatchToFifoQueue",
        args |-> [queueUrl |-> queueUrl, messages |-> messages],
        reqs |-> IF cs = <<>> THEN <<>>
                 ELSE <<Request(SendMessageBatchCommand(Entries(Head(cs)), queueUrl))>>,
        rest |-> IF cs = <<>> THEN <<>> ELSE Tail(cs),
        result |-> IF cs = <<>> THEN Resolved(Undefined, FALSE) ELSE Pending]

\* The same call from the answer to its request in flight: it rejects, or
\* issues the request of the next chunk, or resolves.
BatchCallAnswered(call, outcome) ==
    LET settled == AfterSend(outcome, call.rest)
        answered == Answered(call.reqs, outcome)
    IN IF settled = Pending
       THEN [call EXCEPT
               !.reqs = Append(answered,
                          Request(SendMessageBatchCommand(Entries(Head(call.rest)),
                                                          call.args.queueUrl))),
               !.rest = Tail(call.rest)]
       ELSE [call EXCEPT !.reqs = answered, !.rest = <<>>, !.result = settled]

\* writeMessageToQueue up to its await (inside writeMessage)
MessageCall(queueUrl, message, groupId) ==
    [op |-> "writeMessageToQueue",
     args |-> [queueUrl |-> queueUrl, message |-> message, groupId |-> groupId],
     reqs |-> <<Request(SendMessageCommand(message, queueUrl, groupId))>>,
     result |-> Pending]

\* and from the answer
MessageCallAnswered(call, outcome) ==
    [call EXCEPT !.reqs = Answered(call.reqs, outcome),
                 !.result = IF outcome = Ok THEN Resolved(Undefined, FALSE)
                            ELSE Rejected(outcome)]

(***************************************************************************)
(* SsmWrapper                                                              *)
(***************************************************************************)
\* Most SSMClient objects constructed.
MaxClients == 2
NoClient == 0

ParamNames == {"someparam"}
\* What GetParameter can answer as result.Parameter?.Value: no value, the
\* empty string, a JSON text, a text that is not JSON.
StoreValues == {Undefined, "", "42", "plain"}
\* cache.get(name) of a name that was never set
NoEntry == "<no entry>"
NotKnown == "<not known>"
\* The decrypt argument: left out (true) or false
DecryptArgs == {Undefined, "false"}

Replies == [outcome : {Ok}, value : StoreValues]
             \cup [outcome : ServiceErrors, value : {Undefined}]

\* JavaScript truthiness of what cache.get returns
Truthy(value) == value \notin {Undefined, NoEntry, ""}

\* init(): this.ssm = new SSMClient(...), whatever it was
NewClient(client) == client + 1

\* if (!this.ssm) this.init()
SsmInitIfNeeded(client) == IF client = NoClient THEN NewClient(client) ELSE client

\* new GetParameterCommand({ Name: paramName, WithDecryption: decrypt }),
\* decrypt = true when left out
GetParameterCommand(paramName, decrypt) ==
    [name |-> "GetParameter", Name |-> paramName,
     WithDecryption |-> (Default(decrypt, "true") = "true")]

\* getParam up to its first await or its return: the cached value if it is
\* truthy; otherwise one GetParameter request is issued.
GetParam(c, paramName, decrypt) ==
    LET value == c[paramName]
    IN IF Truthy(value)
       THEN [result |-> Resolved(value, FALSE), reqs |-> <<>>]
       ELSE [result |-> Pending,
             reqs |-> <<Request(GetParameterCommand(paramName, decrypt))>>]

\* getParam from the answer to its request: the Value is stored in the cache
\* and returned; an error is logged and rethrown.
GetParamAnswered(c, paramName, reply) ==
    IF reply.outcome # Ok
    THEN [result |-> Rejected(reply.outcome), cache |-> c]
    ELSE [result |-> Resolved(reply.value, FALSE),
          cache |-> [c EXCEPT ![paramName] = reply.value]]

\* JSON.parse(value) succeeds on JSON texts only
IsJson(value) == value = "42"

\* getParamObject, given what getParam settled with: if (value) return
\* JSON.parse(value); a rejection or a SyntaxError is logged and rethrown;
\* a falsy value gives undefined.
ParamObject(got) ==
    IF got.kind = "rejected" THEN got
    ELSE IF ~Truthy(got.value) THEN Resolved(Undefined, FALSE)
    ELSE IF IsJson(got.value) THEN Resolved(got.value, TRUE)
    ELSE Rejected("SyntaxError")

\* What the public method makes of what getParam gave
ParamResult(op, got) ==
    IF op = "getParamObject" /\ got # Pending THEN ParamObject(got) ELSE got

\* The value a successful getParamValue is first seen to return
Learn(k, op, paramName, result) ==
    IF op = "getParamValue" /\ result.kind = "resolved" /\ k[paramName] = NotKnown
    THEN [k EXCEPT ![paramName] = result.value]
    ELSE k

(***************************************************************************)
(* S3Wrapper                                                               *)
(***************************************************************************)
Buckets == {"BUCKET_NAME", "other-bucket"}
Filenames == {"file.txt", "data.json"}
\* (contents, contentType, encoding) a caller of createFileInBucket passes
CreateFileArgs == {<<Undefined, Undefined, Undefined>>,
                   <<"some text", "text/plain", Undefined>>,
                   <<"some text", Undefined, "gzip">>}

\* initialise(): the client the static field holds afterwards: the one there
\* is, or a new S3Client; still undefined if the constructor threw
initialise(client, constructed) ==
    IF client # Undefined THEN client
    ELSE IF constructed THEN Client ELSE Undefined

\* new PutObjectCommand(params), new GetObjectCommand(params), ...
S3Command(name, params) == [name |-> name, input |-> params]

\* putObjectParams; contentType = 'application/json' when not given
PutObjectParams(bucket, contents, filename, contentType, encoding) ==
    [Bucket |-> bucket, Key |-> filename, Body |-> contents,
     ContentType |-> Default(contentType, "application/json"),
     ContentEncoding |-> encoding]

PutObjectCommand(params) == S3Command("PutObject", params)

\* console.error('PutObject failed', error)
LogLine(text, err) == [text |-> text, error |-> err]

\* createFileInBucket up to its return.  Inside the try: getS3() (which
\* constructs the client if there is none), the command, and
\* `return s3.send(command)`.  A throw inside the try (the client cannot be
\* constructed) is caught, logged and rethrown.  The promise of send is
\* returned without await: the call is left pending on it.
CreateFile(client, params, constructed) ==
    IF initialise(client, constructed) = Undefined
    THEN [client |-> Undefined, reqs |-> <<>>,
          logged |-> <<LogLine("PutObject failed", "ClientConstruction")>>,
          result |-> Rejected("ClientConstruction")]
    ELSE [client |-> initialise(client, constructed),
          reqs |-> <<Request(PutObjectCommand(params))>>,
          logged |-> <<>>,
          result |-> Pending]

\* The settlement of the promise of send is the settlement of the call: the
\* try block was left, so a rejection never passes through the catch.
CreateFileAnswered(outcome) ==
    IF outcome = Ok THEN Resolved("PutObjectCommandOutput", FALSE)
    ELSE Rejected(outcome)

\* Object keys are sequences of words, so that a key can contain a word.
\* A key that is undefined or '' (both falsy)
NoKey == <<>>
FileKeys == {<<"a", ".txt">>}
\* The files (S3 _Object: Key, LastModified) of a listing, and the listings.
\* LastModified is <<date>>, or <<>> for a file that has none; two files of
\* the listings have the same date.
FileLists ==
    LET a == [Key |-> <<"a", ".txt">>, LastModified |-> <<1>>]
        result == [Key |-> <<"result_", "b">>, LastModified |-> <<2>>]
        noKey == [Key |-> NoKey, LastModified |-> <<3>>]
        c == [Key |-> <<"c", ".txt">>, LastModified |-> <<4>>]
        d == [Key |-> <<"d", ".txt">>, LastModified |-> <<1>>]
        e == [Key |-> <<"e", ".txt">>, LastModified |-> <<2>>]
        u == [Key |-> <<"u", ".txt">>, LastModified |-> <<>>]
    IN {<<>>, <<a, result, c>>, <<noKey, a>>, <<c, a, e>>, <<a, d, c>>, <<a, u, c>>}

\* filterResultsFiles('result_'): a file without key is dropped, and so is
\* one whose key contains 'result_'
filterFunction(file) ==
    /\ file.Key # NoKey
    /\ ~(\E i \in 1..Len(file.Key) : file.Key[i] = "result_")

\* sortFilesByDate(left, right): 0 if either file has no date, else -1 if
\* the left file is the later one, else 1 (equal dates included)
sortFilesByDate(left, right) ==
    IF left.LastModified = <<>> \/ right.LastModified = <<>> THEN 0
    ELSE IF left.LastModified[1] > right.LastModified[1] THEN 0 - 1 ELSE 1

\* files.sort(sortFilesByDate) as the runtime (nodejs16.x, V8) sorts an
\* array of fewer than 64 elements: the run the array starts with is found by
\* comparing each element with the one before it (a strictly descending run
\* is reversed), and every later element is put into the sorted part at the
\* place a binary search with the comparator finds.  The order therefore
\* follows the comparator's answers also where they are 0 or inconsistent.
sort(files) ==
    LET n == Len(files)
        descending == n >= 2 /\ sortFilesByDate(files[2], files[1]) < 0
        RECURSIVE CountRun(_)
        CountRun(k) ==
            IF k = n THEN k
            ELSE LET order == sortFilesByDate(files[k + 1], files[k])
                 IN IF (descending /\ order >= 0) \/ (~descending /\ order < 0) THEN k
                    ELSE CountRun(k + 1)
        run == IF n < 2 THEN n ELSE CountRun(2)
        firstRun == IF descending THEN [i \in 1..run |-> files[run + 1 - i]]
                    ELSE SubSeq(files, 1, run)
        RECURSIVE Search(_, _, _, _)
        Search(work, pivot, left, right) ==
            IF left >= right THEN left
            ELSE LET mid == left + ((right - left) \div 2)
                 IN IF sortFilesByDate(pivot, work[mid]) < 0
                    THEN Search(work, pivot, left, mid)
                    ELSE Search(work, pivot, mid + 1, right)
        RECURSIVE BinaryInsertionSort(_, _)
        BinaryInsertionSort(work, start) ==
            IF start > n THEN work
            ELSE LET left == Search(work, work[start], 1, start)
                 IN BinaryInsertionSort(
                        SubSeq(work, 1, left - 1) \o <<work[start]>>
                          \o SubSeq(work, left, start - 1) \o SubSeq(work, start + 1, n),
                        start + 1)
    IN BinaryInsertionSort(firstRun \o SubSeq(files, run + 1, n), run + 1)

\* What GetObject answers as data.Body: nothing, a Buffer, a readable stream
GetObjectReplies == [outcome : {Ok}, Body : {Undefined, "Buffer", "Readable"}]
                       \cup [outcome : ServiceErrors, Body : {Undefined}]
\* data.Body.toString(): the text of a Buffer; Object.prototype.toString of a stream
toString(body) == IF body = "Buffer" THEN "contents" ELSE "[object Object]"

\* Most chunks the 'data' events of a stream deliver to a call.
MaxChunks == 2
\* Buffer.concat(chunks)
RECURSIVE concat(_)
concat(chunks) == IF chunks = <<>> THEN <<>> ELSE Head(chunks) \o concat(Tail(chunks))

\* What ListObjectsV2 answers: Contents (or none), IsTruncated,
\* NextContinuationToken
ListReplies ==
    {r \in [outcome : {Ok}, hasContents : BOOLEAN, Contents : FileLists,
            IsTruncated : BOOLEAN, NextContinuationToken : {Undefined, "token"}] :
        ~r.hasContents => r.Contents = <<>>}
      \cup [outcome : ServiceErrors, hasContents : {FALSE}, Contents : {<<>>},
            IsTruncated : {FALSE}, NextContinuationToken : {Undefined}]
\* Most requests the loop of getListOfFileKeys is made to send.
MaxPages == 2

\* retrieveFileData and getFileByName from the answer to GetObject.
\* retrieveFileData: no Body throws, else Body.toString() is returned.
\* getFileByName: listeners are put on the Body as a stream and the call
\* waits for its events; a Body that is no stream has no `on`: TypeError.
GetObjectDone(call, reply) ==
    LET answered == [call EXCEPT !.reqs = Answered(@, reply.outcome)]
    IN IF reply.outcome # Ok THEN [answered EXCEPT !.result = Rejected(reply.outcome)]
       ELSE IF call.op = "retrieveFileData"
       THEN [answered EXCEPT !.result =
                IF reply.Body = Undefined THEN Rejected("No data found in file")
                ELSE Resolved(toString(reply.Body), FALSE)]
       ELSE IF reply.Body = "Readable" THEN answered
       ELSE [answered EXCEPT !.result = Rejected("TypeError")]

\* retrieveSortedFileList and getListOfFileKeys from the answer to
\* ListObjectsV2.  retrieveSortedFileList: Contents filtered and sorted, or
\* undefined if there is no Contents.  getListOfFileKeys: the keys of the
\* files that have one are added to the results; if the listing is
\* truncated the same command is sent again with the continuation token
\* set in its input, otherwise the results are returned.
ListObjectsDone(call, reply) ==
    LET answered == [call EXCEPT !.reqs = Answered(@, reply.outcome)]
        keys == [i \in 1..Len(reply.Contents) |-> reply.Contents[i].Key]
        IsKey(key) == key # NoKey
        input == call.reqs[Len(call.reqs)].cmd.input
    IN IF reply.outcome # Ok THEN [answered EXCEPT !.result = Rejected(reply.outcome)]
       ELSE IF call.op = "retrieveSortedFileList"
       THEN [answered EXCEPT !.result =
                IF ~reply.hasContents THEN Resolved(Undefined, FALSE)
                ELSE Resolved(sort(SelectSeq(reply.Contents, filterFunction)), FALSE)]
       ELSE IF reply.IsTruncated
       THEN [answered EXCEPT
               !.results = @ \o SelectSeq(keys, IsKey),
               !.reqs = Append(@, Request(S3Command("ListObjectsV2",
                           [input EXCEPT !.ContinuationToken = reply.NextContinuationToken])))]
       ELSE [answered EXCEPT
               !.results = @ \o SelectSeq(keys, IsKey),
               !.result = Resolved(call.results \o SelectSeq(keys, IsKey), FALSE)]

(***************************************************************************)
(* The handler and the module that exports it                              *)
(***************************************************************************)
Steps == <<"getRecord", "getTree", "createFileInBucket", "writeMessageBatchToFifoQueue">>

NoResponse == [statusCode |-> 0]
\* The handler's promise rejected with an error thrown in its body
Threw(err) == [statusCode |-> 0, thrown |-> err]
\* body: `Hello, World! Your request was received`
Greeting == [text |-> "Hello, World! Your request was received"]

\* What the promise of a step rejects with is made by the libraries the
\* steps call (the AWS SDK clients, dynamodb-onetable) and is caught as it
\* is: `catch (err)` takes any value, and errors is an any[].  JSON.stringify
\* is defined on some values only: it throws a TypeError on a value that
\* refers to itself or holds a BigInt.  Circular is an error of that kind.
Circular == "CircularError"
\* What a step's request can be answered with
HandlerOutcomes == Outcomes \cup {Circular}
Serialisable(err) == err # Circular

\* JSON.stringify(errors, null, 2): the text of the array, one element per
\* error; it throws a TypeError if an error cannot be serialised.
Stringify(errs) == [json |-> "array", elements |-> errs]
StringifyThrows(errs) == \E i \in 1..Len(errs) : ~Serialisable(errs[i].error)

\* try { await step } catch (err) { errors.push(err) }
Catch(errs, step, settled) ==
    IF settled.kind = "rejected"
    THEN Append(errs, [step |-> step, error |-> settled.error])
    ELSE errs

\* if (errors.length > 0) return 400 ... ; return 200 ...
Respond(errs) ==
    IF Len(errs) > 0
    THEN [statusCode |-> 400, contentType |-> "text/plain", body |-> Stringify(errs)]
    ELSE [statusCode |-> 200, contentType |-> "text/plain", body |-> Greeting]

StepIndex(pc) == CHOOSE i \in 1..Len(Steps) : Steps[i] = pc

\* getRecord: new GetItemCommand({ TableName, Key: { pk: 'something', sk: 'else' } })
GetRecordCommand ==
    [name |-> "GetItem", TableName |-> "TABLE_NAME",
     Key |-> [pk |-> [S |-> "something"], sk |-> [S |-> "else"]]]
\* TestDao.getTree: TestModel.get({ pk: 'test', sk: 'test' })
GetTreeRequest == [name |-> "TestModel.get", pk |-> "test", sk |-> "test"]
\* createFileInBucket(BUCKET_NAME, 'some text', 'file.txt', 'text/plain')
HandlerParams == PutObjectParams("BUCKET_NAME", "some text", "file.txt", "text/plain", Undefined)
\* writeMessageBatchToFifoQueue(QUEUE_URL, [{ groupId: 'group1', message: 'hello' }])
HandlerMessages == <<[message |-> "hello", groupId |-> "group1"]>>

\* What the promise a step awaits settles with, given the answer to the
\* step's request
StepSettled(i, outcome) ==
    IF i = 3 THEN CreateFileAnswered(outcome)
    ELSE IF i = 4 THEN AfterSend(outcome, Tail(chunk(HandlerMessages, ChunkSize)))
    ELSE IF outcome = Ok THEN Resolved(Undefined, FALSE)
    ELSE Rejected(outcome)

HandlerInit ==
    /\ h_pc = "unloaded"
    /\ errors = <<>>
    /\ failedSteps = {}
    /\ response = NoResponse
    /\ h_settled = "pending"
    /\ h_reqs = <<>>

\* The import of the module up to the await of its body.  The imports are
\* evaluated first: TestDynDb.ts ends with TestDynDb.init(), whose
\* super.init() builds the DynamoDB client unless there is one (a throw of
\* the constructor is caught and leaves none).  Then the module body runs
\* getParamValue('someparam') up to its await.
ModuleLoad ==
    /\ h_pc = "unloaded"
    /\ \E constructed \in BOOLEAN :
         ddb' = IF ddb = Undefined /\ constructed THEN Client ELSE ddb
    /\ LET got == GetParam(cache, "someparam", Undefined)
       IN /\ ssm' = SsmInitIfNeeded(ssm)
          /\ h_reqs' = got.reqs
          /\ h_pc' = IF got.result = Pending THEN "loading" ELSE "idle"
          /\ known' = Learn(known, "getParamValue", "someparam", got.result)
    /\ UNCHANGED <<errors, failedSteps, response, h_settled, calls, cache, s3Client, table>>

\* The answer to it: the value is cached; catch (err) {} drops an error
ModuleLoaded ==
    /\ h_pc = "loading"
    /\ \E reply \in Replies :
         LET got == GetParamAnswered(cache, "someparam", reply)
         IN /\ cache' = got.cache
            /\ known' = Learn(known, "getParamValue", "someparam", got.result)
            /\ h_reqs' = Answered(h_reqs, reply.outcome)
    /\ h_pc' = "idle"
    /\ UNCHANGED <<errors, failedSteps, response, h_settled, calls, ssm, s3Client, dvars>>

\* A new invocation: let errors = [], and getRecord() up to the await
Invoke ==
    /\ h_pc \in {"idle", "done"}
    /\ h_pc' = Steps[1]
    /\ errors' = <<>>
    /\ failedSteps' = {}
    /\ response' = NoResponse
    /\ h_settled' = "pending"
    /\ h_reqs' = <<Request(GetRecordCommand)>>
    /\ UNCHANGED <<calls, wvars, dvars>>

\* The handler suspended at the await of a step
AwaitStep(step, errs, failed, reqs) ==
    /\ h_pc' = step
    /\ errors' = errs
    /\ failedSteps' = failed
    /\ h_reqs' = reqs
    /\ UNCHANGED <<response, h_settled>>

\* The handler's promise settled
Settled(errs, failed, reqs, how, value) ==
    /\ h_pc' = "done"
    /\ errors' = errs
    /\ failedSteps' = failed
    /\ h_reqs' = reqs
    /\ h_settled' = how
    /\ response' = value

\* if (errors.length > 0) return { 400, JSON.stringify(errors) }; return { 200 }
Return(errs, failed, reqs) ==
    IF Len(errs) > 0 /\ StringifyThrows(errs)
    THEN Settled(errs, failed, reqs, "rejected", Threw("TypeError"))
    ELSE Settled(errs, failed, reqs, "resolved", Respond(errs))

\* The fourth step up to its await
CallQueue(errs, failed, reqs) ==
    LET call == BatchCall(QueueUrl, HandlerMessages)
    IN IF call.result = Pending
       THEN AwaitStep(Steps[4], errs, failed, reqs \o call.reqs)
       ELSE Return(errs, failed, reqs)

\* The third step up to its await; if the call throws before it sends, the
\* error is pushed and the fourth step follows at once
CallS3(errs, failed, reqs, constructed) ==
    LET got == CreateFile(s3Client, HandlerParams, constructed)
    IN /\ s3Client' = got.client
       /\ IF got.result = Pending
          THEN AwaitStep(Steps[3], errs, failed, reqs \o got.reqs)
          ELSE CallQueue(Catch(errs, Steps[3], got.result), failed \cup {Steps[3]}, reqs)

\* The answer to the request of the step awaited: the catch block of the
\* step, then the code up to the next await or to the end.  The catch of the
\* second step also runs console.log(JSON.stringify(err, null, 2)).
HandlerReply ==
    /\ h_pc \in {Steps[i] : i \in 1..Len(Steps)}
    /\ \E outcome \in HandlerOutcomes, constructed \in BOOLEAN :
         LET i == StepIndex(h_pc)
             settled == StepSettled(i, outcome)
             errs == Catch(errors, h_pc, settled)
             failed == IF settled.kind = "rejected" THEN failedSteps \cup {h_pc}
                       ELSE failedSteps
             reqs == Answered(h_reqs, outcome)
         IN IF i = 1
            THEN /\ AwaitStep(Steps[2], errs, failed, Append(reqs, Request(GetTreeRequest)))
                 /\ UNCHANGED s3Client
            ELSE IF i = 2
            THEN IF settled.kind = "rejected" /\ ~Serialisable(settled.error)
                 THEN /\ Settled(errs, failed, reqs, "rejected", Threw("TypeError"))
                      /\ UNCHANGED s3Client
                 ELSE CallS3(errs, failed, reqs, constructed)
            ELSE IF i = 3
            THEN CallQueue(errs, failed, reqs) /\ UNCHANGED s3Client
            ELSE Return(errs, failed, reqs) /\ UNCHANGED s3Client
    /\ UNCHANGED <<calls, ssm, cache, known, dvars>>

HandlerNext == ModuleLoad \/ ModuleLoaded \/ Invoke \/ HandlerReply

(***************************************************************************)
(* Calls of the wrappers                                                   *)
(***************************************************************************)
WrappersInit == calls = [c \in Slots |-> NoCall]

\* A caller's new call, as far as it ran before it yielded
Start(call) ==
    /\ \E c \in Slots : ~IsPending(calls[c])
    /\ calls' = Put(calls, NextSlot(calls), call)

\* The call, up to its first await (inside writeMessageBatch)
writeMessageBatchToFifoQueue ==
    /\ \E n \in 0..MaxMsgs : Start(BatchCall(QueueUrl, MakeMessages(n)))
    /\ UNCHANGED <<hvars, wvars, dvars>>

\* await this.sqsClient.send(command) answered: the rest of the iteration,
\* and the loop up to the next await or to its end
writeMessageBatch ==
    /\ \E c \in Slots, outcome \in Outcomes :
         /\ calls[c].op = "writeMessageBatchToFifoQueue"
         /\ IsPending(calls[c])
         /\ calls' = Put(calls, c, BatchCallAnswered(calls[c], outcome))
    /\ UNCHANGED <<hvars, wvars, dvars>>

\* The call, up to its await (inside writeMessage)
writeMessageToQueue ==
    /\ \E groupId \in {Undefined, "group1"} : Start(MessageCall(QueueUrl, "hello", groupId))
    /\ UNCHANGED <<hvars, wvars, dvars>>

\* await this.sqsClient.send(command) answered
writeMessage ==
    /\ \E c \in Slots, outcome \in Outcomes :
         /\ calls[c].op = "writeMessageToQueue"
         /\ IsPending(calls[c])
         /\ calls' = Put(calls, c, MessageCallAnswered(calls[c], outcome))
    /\ UNCHANGED <<hvars, wvars, dvars>>

SqsBatchNext == writeMessageBatchToFifoQueue \/ writeMessageBatch

SqsNext == SqsBatchNext \/ writeMessageToQueue \/ writeMessage

SsmInit ==
    /\ ssm = NoClient
    /\ cache = [n \in ParamNames |-> NoEntry]
    /\ known = [n \in ParamNames |-> NotKnown]

\* SsmWrapper.init(), called from outside
SsmWrapper_init ==
    /\ ssm < MaxClients
    /\ ssm' = NewClient(ssm)
    /\ UNCHANGED <<hvars, calls, cache, known, s3Client, dvars>>

\* getParamValue / getParamObject up to the await in getParam, or to the
\* return when the cache holds a truthy value
SsmCall(op, paramName, decrypt) ==
    LET got == GetParam(cache, paramName, decrypt)
        res == ParamResult(op, got.result)
    IN /\ Start([op |-> op,
                 args |-> [paramName |-> paramName, decrypt |-> decrypt],
                 reqs |-> got.reqs,
                 result |-> res])
       /\ ssm' = SsmInitIfNeeded(ssm)
       /\ known' = Learn(known, op, paramName, res)
       /\ UNCHANGED <<cache, s3Client, hvars, dvars>>

getParamValue ==
    \E n \in ParamNames, decrypt \in DecryptArgs : SsmCall("getParamValue", n, decrypt)

getParamObject ==
    \E n \in ParamNames, decrypt \in DecryptArgs : SsmCall("getParamObject", n, decrypt)

\* await this.ssm.send(command) answered: the rest of getParam and of the
\* public method
getParam ==
    /\ \E c \in Slots, reply \in Replies :
         /\ calls[c].op \in {"getParamValue", "getParamObject"}
         /\ IsPending(calls[c])
         /\ LET paramName == calls[c].args.paramName
                got == GetParamAnswered(cache, paramName, reply)
                res == ParamResult(calls[c].op, got.result)
            IN /\ calls' = Put(calls, c, [calls[c] EXCEPT
                                              !.reqs = Answered(@, reply.outcome),
                                              !.result = res])
               /\ cache' = got.cache
               /\ known' = Learn(known, calls[c].op, paramName, res)
    /\ UNCHANGED <<ssm, s3Client, hvars, dvars>>

SsmCalls == getParamValue \/ getParamObject \/ getParam

SsmNext == SsmWrapper_init \/ SsmCalls

S3Init == s3Client = Undefined

\* S3Wrapper.getS3(), called from outside: initialise(), nothing is sent
getS3 ==
    /\ \E constructed \in BOOLEAN : s3Client' = initialise(s3Client, constructed)
    /\ UNCHANGED <<hvars, calls, ssm, cache, known, dvars>>

\* A method from `const s3 = S3Wrapper.getS3()` up to the await (or the
\* return) of what it sends; if getS3 throws, the method ends with `thrown`
\* and nothing is sent
S3Send(call, constructed, thrown) ==
    /\ s3Client' = initialise(s3Client, constructed)
    /\ Start(IF initialise(s3Client, constructed) = Undefined
             THEN [call EXCEPT !.reqs = <<>>, !.result = thrown]
             ELSE call)
    /\ UNCHANGED <<ssm, cache, known, hvars, dvars>>

\* The call up to its return: the request is issued, the promise of send is
\* handed to the caller
createFileInBucket ==
    /\ \E bucket \in Buckets, filename \in Filenames, a \in CreateFileArgs,
          constructed \in BOOLEAN :
         LET params == PutObjectParams(bucket, a[1], filename, a[2], a[3])
             got == CreateFile(s3Client, params, constructed)
         IN /\ Start([op |-> "createFileInBucket",
                      args |-> [bucket |-> bucket, contents |-> a[1],
                                filename |-> filename, contentType |-> a[2],
                                encoding |-> a[3]],
                      reqs |-> got.reqs,
                      logged |-> got.logged,
                      result |-> got.result])
            /\ s3Client' = got.client
    /\ UNCHANGED <<ssm, cache, known, hvars, dvars>>

\* The PutObject request answered
PutObjectAnswered ==
    /\ \E c \in Slots, outcome \in Outcomes :
         /\ calls[c].op = "createFileInBucket"
         /\ IsPending(calls[c])
         /\ calls' = Put(calls, c, [calls[c] EXCEPT
                                        !.reqs = Answered(@, outcome),
                                        !.result = CreateFileAnswered(outcome)])
    /\ UNCHANGED <<hvars, wvars, dvars>>

\* retrieveFileData(files, bucket) up to its await: without a key of the
\* first file it throws before getS3
retrieveFileData ==
    \E files \in FileLists, bucket \in Buckets, constructed \in BOOLEAN :
        LET fileKey == IF files = <<>> THEN NoKey ELSE files[1].Key
            call == [op |-> "retrieveFileData",
                     args |-> [files |-> files, bucket |-> bucket],
                     reqs |-> <<Request(S3Command("GetObject",
                                          [Bucket |-> bucket, Key |-> fileKey]))>>,
                     result |-> Pending]
        IN IF fileKey = NoKey
           THEN /\ Start([call EXCEPT !.reqs = <<>>, !.result = Rejected("No file found")])
                /\ UNCHANGED <<wvars, hvars, dvars>>
           ELSE S3Send(call, constructed, Rejected("ClientConstruction"))

\* retrieveSortedFileList(bucket) up to its await
retrieveSortedFileList ==
    \E bucket \in Buckets, constructed \in BOOLEAN :
        S3Send([op |-> "retrieveSortedFileList", args |-> [bucket |-> bucket],
                reqs |-> <<Request(S3Command("ListObjectsV2", [Bucket |-> bucket]))>>,
                result |-> Pending],
               constructed, Rejected("ClientConstruction"))

\* getFileByName(bucket, name) up to its await
getFileByName ==
    \E bucket \in Buckets, name \in FileKeys, constructed \in BOOLEAN :
        S3Send([op |-> "getFileByName", args |-> [bucket |-> bucket, name |-> name],
                reqs |-> <<Request(S3Command("GetObject",
                                     [Bucket |-> bucket, Key |-> name]))>>,
                chunks |-> <<>>,
                result |-> Pending],
               constructed, Rejected("ClientConstruction"))

\* deleteFileByName(bucket, name) up to its return; the method is not async:
\* an error of getS3 is thrown at the caller, not a rejected promise
deleteFileByName ==
    \E bucket \in Buckets, name \in FileKeys, constructed \in BOOLEAN :
        S3Send([op |-> "deleteFileByName", args |-> [bucket |-> bucket, name |-> name],
                reqs |-> <<Request(S3Command("DeleteObject",
                                     [Bucket |-> bucket, Key |-> name]))>>,
                result |-> Pending],
               constructed, [kind |-> "threw", error |-> "ClientConstruction"])

\* getSignedUrlForFile(bucket, filename, operation, expiresSeconds = 3600) up
\* to its return: the promise of getSignedUrl(s3, command, { expiresIn })
getSignedUrlForFile ==
    \E bucket \in Buckets, filename \in FileKeys, operation \in {"get", "put"},
       expiresSeconds \in {Undefined, "60"}, constructed \in BOOLEAN :
        S3Send([op |-> "getSignedUrlForFile",
                args |-> [bucket |-> bucket, filename |-> filename,
                          operation |-> operation, expiresSeconds |-> expiresSeconds],
                reqs |-> <<Request([name |-> "getSignedUrl",
                             command |-> S3Command(IF operation = "get" THEN "GetObject"
                                                   ELSE "PutObject",
                                                   [Bucket |-> bucket, Key |-> filename]),
                             expiresIn |-> Default(expiresSeconds, "3600")])>>,
                result |-> Pending],
               constructed, Rejected("ClientConstruction"))

\* getListOfFileKeys(bucket, prefix) up to the first await of its loop
getListOfFileKeys ==
    \E bucket \in Buckets, prefix \in {Undefined, "a"}, constructed \in BOOLEAN :
        S3Send([op |-> "getListOfFileKeys", args |-> [bucket |-> bucket, prefix |-> prefix],
                reqs |-> <<Request(S3Command("ListObjectsV2",
                                     [Bucket |-> bucket, MaxKeys |-> 100, Prefix |-> prefix,
                                      ContinuationToken |-> Undefined]))>>,
                results |-> <<>>,
                result |-> Pending],
               constructed, Rejected("ClientConstruction"))

\* The call in slot c waits for the answer to its request
Awaits(c, ops) ==
    /\ calls[c].op \in ops
    /\ IsPending(calls[c])
    /\ calls[c].reqs[Len(calls[c].reqs)].outcome = InFlight

\* A GetObject request answered
GetObjectAnswered ==
    /\ \E c \in Slots, reply \in GetObjectReplies :
         /\ Awaits(c, {"retrieveFileData", "getFileByName"})
         /\ calls' = Put(calls, c, GetObjectDone(calls[c], reply))
    /\ UNCHANGED <<hvars, wvars, dvars>>

\* A 'data' event of the stream getFileByName listens to: chunks.push(chunk)
StreamData ==
    /\ \E c \in Slots, data \in {<<1>>, <<2, 3>>} :
         /\ calls[c].op = "getFileByName"
         /\ IsPending(calls[c])
         /\ ~Awaits(c, {"getFileByName"})
         /\ Len(calls[c].chunks) < MaxChunks
         /\ calls' = Put(calls, c, [calls[c] EXCEPT !.chunks = Append(@, data)])
    /\ UNCHANGED <<hvars, wvars, dvars>>

\* Its 'end' event: resolve(Buffer.concat(chunks)); its 'error' event: reject
StreamSettled ==
    /\ \E c \in Slots, event \in {"end", "error"} :
         /\ calls[c].op = "getFileByName"
         /\ IsPending(calls[c])
         /\ ~Awaits(c, {"getFileByName"})
         /\ calls' = Put(calls, c, [calls[c] EXCEPT !.result =
                         IF event = "end" THEN Resolved(concat(calls[c].chunks), FALSE)
                         ELSE Rejected("StreamError")])
    /\ UNCHANGED <<hvars, wvars, dvars>>

\* A ListObjectsV2 request answered (the loop is given at most MaxPages pages)
ListObjectsAnswered ==
    /\ \E c \in Slots, reply \in ListReplies :
         /\ Awaits(c, {"retrieveSortedFileList", "getListOfFileKeys"})
         /\ (calls[c].op = "getListOfFileKeys" /\ reply.IsTruncated)
               => Len(calls[c].reqs) < MaxPages
         /\ calls' = Put(calls, c, ListObjectsDone(calls[c], reply))
    /\ UNCHANGED <<hvars, wvars, dvars>>

\* The promise deleteFileByName or getSignedUrlForFile returned settles
ReturnedPromiseSettled ==
    /\ \E c \in Slots, outcome \in Outcomes :
         /\ Awaits(c, {"deleteFileByName", "getSignedUrlForFile"})
         /\ calls' = Put(calls, c, [calls[c] EXCEPT
               !.reqs = Answered(@, outcome),
               !.result = IF outcome # Ok THEN Rejected(outcome)
                          ELSE IF calls[c].op = "deleteFileByName"
                          THEN Resolved("DeleteObjectCommandOutput", FALSE)
                          ELSE Resolved("signed url", FALSE)])
    /\ UNCHANGED <<hvars, wvars, dvars>>

S3Next ==
    \/ getS3
    \/ createFileInBucket
    \/ PutObjectAnswered
    \/ retrieveFileData
    \/ retrieveSortedFileList
    \/ getFileByName
    \/ deleteFileByName
    \/ getSignedUrlForFile
    \/ getListOfFileKeys
    \/ GetObjectAnswered
    \/ StreamData
    \/ StreamSettled
    \/ ListObjectsAnswered
    \/ ReturnedPromiseSettled

(***************************************************************************)
(* DynDb: values, marshalling, and the table service                       *)
(***************************************************************************)
\* Attribute values are strings, written as sequences of character codes so
\* that prefixes and the lexicographic order are those of the strings.
StrA == <<1>>
StrAB == <<1, 2>>
KeyValues == {StrA, StrAB}
\* JavaScript `undefined` as the value of an object property
UndefAttr == <<0>>

TableName == "TABLE_NAME"
\* public static readonly INDEX_NAME = 'GSI1'
INDEX_NAME == "GSI1"

\* marshall(obj, { removeUndefinedValues: true }): every defined property
\* becomes a typed attribute value; the values here are strings.
marshall(obj) ==
    [k \in {a \in DOMAIN obj : obj[a] # UndefAttr} |-> [S |-> obj[k]]]

ValOf(av) == IF DOMAIN av = {"S"} THEN av.S ELSE av.N

\* unmarshall(item): the plain object of a typed attribute map
unmarshall(item) == [k \in DOMAIN item |-> ValOf(item[k])]

\* delete record.PK; delete record.SK; return record
deleteKeyFromItem(record) == [k \in DOMAIN record \ {"PK", "SK"} |-> record[k]]

\* The table of the stack (the one TABLE_NAME names):
\* primaryIndex: { partitionKey: 'pk', sortKey: 'sk' }, and no other index
KeySchema == [hash |-> "pk", range |-> "sk"]
\* The key schema a request addresses: the table's own when it names no
\* index; an index name addresses nothing, the table has no index
Schema(indexName) ==
    IF indexName = Undefined THEN KeySchema
    ELSE [hash |-> Undefined, range |-> Undefined]

\* What the table can hold before the first call: items of TestModel (pk
\* and sk, both strings), stored through the model
Tables == SUBSET {marshall([pk |-> p, sk |-> s]) : p \in KeyValues, s \in KeyValues}

SameKey(a, b) ==
    /\ a[KeySchema.hash] = b[KeySchema.hash]
    /\ a[KeySchema.range] = b[KeySchema.range]

IsPrefix(p, s) == Len(p) <= Len(s) /\ SubSeq(s, 1, Len(p)) = p
\* a <= b in the order of strings
LexLeq(a, b) ==
    \/ a = b
    \/ \E i \in 1..(Len(a) + 1) :
          /\ i <= Len(b)
          /\ \A j \in 1..(i - 1) : a[j] = b[j]
          /\ i > Len(a) \/ a[i] < b[i]

ServiceOk(items) == [kind |-> "ok", Items |-> items]
ServiceError(err) == [kind |-> "error", error |-> err]
NoReply == [kind |-> "none"]

\* The key condition a Query command states: which attribute equals what,
\* and the condition on the other key attribute.
Condition(cmd) ==
    LET e == cmd.KeyConditionExpression
        N == cmd.ExpressionAttributeNames
        V == cmd.ExpressionAttributeValues
    IN CASE e = "#PK = :pkVal" ->
              [eqAttr |-> N["#PK"], eqVal |-> V[":pkVal"], rangeOp |-> "none",
               rangeAttr |-> Undefined, rangeVals |-> <<>>]
         [] e = "#PK = :pkVal AND begins_with(#SK , :skVal)" ->
              [eqAttr |-> N["#PK"], eqVal |-> V[":pkVal"], rangeOp |-> "begins_with",
               rangeAttr |-> N["#SK"], rangeVals |-> <<V[":skVal"]>>]
         [] e = "#PK = :pkVal AND #SK BETWEEN :skValFrom AND :skValTo" ->
              [eqAttr |-> N["#PK"], eqVal |-> V[":pkVal"], rangeOp |-> "between",
               rangeAttr |-> N["#SK"],
               rangeVals |-> <<V[":skValFrom"], V[":skValTo"]>>]
         [] e = "#SK = :skVal" ->
              [eqAttr |-> N["#SK"], eqVal |-> V[":skVal"], rangeOp |-> "none",
               rangeAttr |-> Undefined, rangeVals |-> <<>>]
         [] e = "#SK = :skVal and begins_with(#PK, :pkPrefix)" ->
              [eqAttr |-> N["#SK"], eqVal |-> V[":skVal"], rangeOp |-> "begins_with",
               rangeAttr |-> N["#PK"], rangeVals |-> <<V[":pkPrefix"]>>]

Matches(item, c) ==
    /\ ValOf(item[c.eqAttr]) = ValOf(c.eqVal)
    /\ CASE c.rangeOp = "none" -> TRUE
         [] c.rangeOp = "begins_with" ->
              IsPrefix(ValOf(c.rangeVals[1]), ValOf(item[c.rangeAttr]))
         [] c.rangeOp = "between" ->
              /\ LexLeq(ValOf(c.rangeVals[1]), ValOf(item[c.rangeAttr]))
              /\ LexLeq(ValOf(item[c.rangeAttr]), ValOf(c.rangeVals[2]))

\* The items of a set in ascending order of one attribute
RECURSIVE SortBy(_, _)
SortBy(items, attr) ==
    IF items = {} THEN <<>>
    ELSE LET first == CHOOSE a \in items :
                         \A b \in items : LexLeq(ValOf(a[attr]), ValOf(b[attr]))
         IN <<first>> \o SortBy(items \ {first}, attr)

\* Query: the command must address the table or an index there is, and name
\* its key attributes with string values; the matching items come back in
\* the order of the range key.
Query(cmd, tbl) ==
    LET c == Condition(cmd)
        schema == Schema(cmd.IndexName)
        typesOk == /\ DOMAIN c.eqVal = {"S"}
                   /\ \A i \in 1..Len(c.rangeVals) : DOMAIN c.rangeVals[i] = {"S"}
        namesOk == /\ schema.hash # Undefined
                   /\ c.eqAttr = schema.hash
                   /\ c.rangeOp # "none" => c.rangeAttr = schema.range
    IN IF ~(namesOk /\ typesOk) THEN ServiceError("ValidationException")
       ELSE ServiceOk(SortBy({it \in tbl : Matches(it, c)}, schema.range))

\* What the table service answers to a command.  GetItem and DeleteItem
\* take exactly the key attributes of the table, PutItem an item that has
\* them; GetItem answers the item with that key, if any.
Service(cmd, tbl) ==
    LET keyAttrs == {KeySchema.hash, KeySchema.range}
    IN CASE cmd.op = "Query" -> Query(cmd, tbl)
         [] cmd.op = "GetItem" ->
              IF DOMAIN cmd.Key # keyAttrs THEN ServiceError("ValidationException")
              ELSE ServiceOk(SortBy({it \in tbl : SameKey(it, cmd.Key)}, KeySchema.range))
         [] cmd.op = "PutItem" ->
              IF keyAttrs \subseteq DOMAIN cmd.Item THEN ServiceOk(<<>>)
              ELSE ServiceError("ValidationException")
         [] cmd.op = "DeleteItem" ->
              IF DOMAIN cmd.Key = keyAttrs THEN ServiceOk(<<>>)
              ELSE ServiceError("ValidationException")

(***************************************************************************)
(* DynDb: the commands the methods build                                   *)
(***************************************************************************)
\* new PutItemCommand / GetItemCommand / DeleteItemCommand({ TableName, ... })
PutItemCommand(item) ==
    [op |-> "PutItem", TableName |-> TableName, Item |-> marshall(item)]

KeyCommand(op, key) ==
    [op |-> op, TableName |-> TableName, Key |-> marshall(key)]

QueryCommand(indexName, expression, names, values) ==
    [op |-> "Query", TableName |-> TableName, IndexName |-> indexName,
     KeyConditionExpression |-> expression,
     ExpressionAttributeNames |-> names,
     ExpressionAttributeValues |-> values]

Typed(type, value) == IF type = "N" THEN [N |-> value] ELSE [S |-> value]

\* Variant of getItemsWithSKBetweenCommand that sets IndexName to indexName as given
getItemsWithSKBetweenCommandAnyIndex(keyVals, partitionKeyName, sortKeyName, partitionKeyType, sortKeyType, indexName) ==
    QueryCommand(indexName,
                 "#PK = :pkVal AND #SK BETWEEN :skValFrom AND :skValTo",
                 ("#PK" :> Default(partitionKeyName, "PK"))
                    @@ ("#SK" :> Default(sortKeyName, "SK")),
                 (":pkVal" :> Typed(Default(partitionKeyType, "S"), keyVals.pkVal))
                    @@ (":skValFrom" :> Typed(Default(sortKeyType, "S"), keyVals.skValFrom))
                    @@ (":skValTo" :> Typed(Default(sortKeyType, "S"), keyVals.skValTo)))

\* if (indexName) queryParams.IndexName = indexName: undefined and '' set none
getItemsWithSKBetweenCommand(keyVals, partitionKeyName, sortKeyName, partitionKeyType, sortKeyType, indexName) ==
    QueryCommand(IF indexName \notin {Undefined, ""} THEN indexName ELSE Undefined,
                 "#PK = :pkVal AND #SK BETWEEN :skValFrom AND :skValTo",
                 ("#PK" :> Default(partitionKeyName, "PK"))
                    @@ ("#SK" :> Default(sortKeyName, "SK")),
                 (":pkVal" :> Typed(Default(partitionKeyType, "S"), keyVals.pkVal))
                    @@ (":skValFrom" :> Typed(Default(sortKeyType, "S"), keyVals.skValFrom))
                    @@ (":skValTo" :> Typed(Default(sortKeyType, "S"), keyVals.skValTo)))

(***************************************************************************)
(* DynDb: what each method makes of the reply                              *)
(***************************************************************************)
Void == [kind |-> "resolved", type |-> "void"]
UndefinedResult == [kind |-> "resolved", type |-> "undefined"]
ItemResult(item) == [kind |-> "resolved", type |-> "item", item |-> item]
ItemsResult(items) == [kind |-> "resolved", type |-> "items", items |-> items]

\* The answer to a request sent: the transport's error, or what the
\* service makes of the command
Send(cmd, outcome, tbl) ==
    IF outcome # Ok THEN ServiceError(outcome) ELSE Service(cmd, tbl)

\* The table after the answer to a request: PutItem replaces the item of
\* that key, DeleteItem removes it
TableAfter(cmd, reply, tbl) ==
    IF reply.kind # "ok" THEN tbl
    ELSE IF cmd.op = "PutItem"
    THEN {it \in tbl : ~SameKey(it, cmd.Item)} \cup {cmd.Item}
    ELSE IF cmd.op = "DeleteItem" THEN {it \in tbl : ~SameKey(it, cmd.Key)}
    ELSE tbl

\* What a method makes of `await this.ddb?.send(cmd)`: a rejection is thrown
\* on; with no client the awaited value is undefined (no reply).
\*   putItem, deleteItem: nothing is returned;
\*   getItem, getItemBySK: the first item without PK and SK, or undefined;
\*   getItemByPK: the same, but more than one item throws;
\*   getItemsByPK, getItemsWithSKBeginning, getItemsWithSKBetween: the
\*     items as they are, [] if there is none;
\*   getAllByPKPrefixAndSK: the items without PK and SK, [] if there is none.
ResultOf(op, reply) ==
    LET items == IF reply.kind = "ok" THEN reply.Items ELSE <<>>
    IN IF reply.kind = "error" THEN Rejected(reply.error)
       ELSE CASE op \in {"putItem", "deleteItem"} -> Void
              [] op \in {"getItem", "getItemBySK"} ->
                   IF items = <<>> THEN UndefinedResult
                   ELSE ItemResult(deleteKeyFromItem(unmarshall(items[1])))
              [] op = "getItemByPK" ->
                   IF items = <<>> THEN UndefinedResult
                   ELSE IF Len(items) > 1 THEN Rejected("Multiple items found with PK")
                   ELSE ItemResult(deleteKeyFromItem(unmarshall(items[1])))
              [] op \in {"getItemsByPK", "getItemsWithSKBeginning",
                         "getItemsWithSKBetween"} ->
                   ItemsResult([i \in 1..Len(items) |-> unmarshall(items[i])])
              [] op = "getAllByPKPrefixAndSK" ->
                   ItemsResult([i \in 1..Len(items) |->
                                   deleteKeyFromItem(unmarshall(items[i]))])

(***************************************************************************)
(* DynDb: the operations                                                   *)
(***************************************************************************)
\* Outcomes of the transport of a table request
DynOutcomes == {Ok, "ProvisionedThroughputExceeded"}

\* Keys callers pass (DynamoDbKey: PK, and SK optional)
KeyArgs == [PK : KeyValues, SK : {StrA, UndefAttr}]
\* Items callers pass: records that extend DynamoDbKey, with the fields of
\* the table's model (pk, sk) or without them
ItemArgs ==
    {[PK |-> StrA, SK |-> s, pk |-> StrA, sk |-> s] : s \in KeyValues}
       \cup {[PK |-> StrA, SK |-> UndefAttr, pk |-> StrAB, sk |-> StrA],
             [PK |-> StrA, SK |-> StrA, pk |-> UndefAttr, sk |-> UndefAttr]}
RangeArgs == [pkVal : {StrA}, skValFrom : {StrA}, skValTo : KeyValues]
\* (partitionKeyName, sortKeyName, partitionKeyType, sortKeyType, indexName)
\* of getItemsWithSKBetween: all left out; an empty index name; the index
\* GSI1; the key names of the table, alone, with another index name, and
\* with number-typed values
BetweenArgs ==
    {<<Undefined, Undefined, Undefined, Undefined, Undefined>>,
     <<Undefined, Undefined, Undefined, Undefined, "">>,
     <<Undefined, Undefined, Undefined, Undefined, INDEX_NAME>>,
     <<"pk", "sk", Undefined, Undefined, Undefined>>,
     <<"pk", "sk", Undefined, Undefined, "LSI1">>,
     <<"pk", "sk", "N", "N", Undefined>>}

ReadOps == {"getItem", "getItemByPK", "getItemsByPK", "getItemsWithSKBeginning",
            "getItemsWithSKBetween", "getItemBySK", "getAllByPKPrefixAndSK"}

\* The class as loaded: no client yet.  The table is the service's and
\* holds whatever was stored in it before.
DynDbInit ==
    /\ ddb = Undefined
    /\ table \in Tables

\* init(): a client is constructed only if there is none; a failing
\* construction is logged and leaves ddb undefined.
init ==
    /\ \E constructed \in BOOLEAN :
         ddb' = IF ddb = Undefined /\ constructed THEN Client ELSE ddb
    /\ UNCHANGED <<table, calls, hvars, wvars>>

\* The common shape of the methods, up to `await this.ddb?.send(cmd)`: the
\* command is built and the request issued.  With no client nothing is sent,
\* the awaited value is undefined and the method runs on to its end.
Settle(op, args, cmd) ==
    /\ Start([op |-> op,
              reqs |-> IF ddb = Undefined THEN <<>> ELSE <<Request(cmd)>>,
              result |-> IF ddb = Undefined THEN ResultOf(op, NoReply) ELSE Pending,
              cmd |-> cmd, args |-> args])
    /\ UNCHANGED <<ddb, table, hvars, wvars>>

putItem ==
    \E item \in ItemArgs : Settle("putItem", [item |-> item], PutItemCommand(item))

deleteItem ==
    \E key \in KeyArgs : Settle("deleteItem", [key |-> key], KeyCommand("DeleteItem", key))

getItem ==
    \E key \in KeyArgs : Settle("getItem", [key |-> key], KeyCommand("GetItem", key))

getItemByPK ==
    \E pkVal \in KeyValues :
        Settle("getItemByPK", [pkVal |-> pkVal],
               QueryCommand(Undefined, "#PK = :pkVal",
                            "#PK" :> "PK", ":pkVal" :> [S |-> pkVal]))

getItemsByPK ==
    \E pkVal \in KeyValues :
        Settle("getItemsByPK", [pkVal |-> pkVal],
               QueryCommand(Undefined, "#PK = :pkVal",
                            "#PK" :> "PK", ":pkVal" :> [S |-> pkVal]))

getItemsWithSKBeginning ==
    \E pkVal \in KeyValues, skVal \in {StrA} :
        Settle("getItemsWithSKBeginning", [pkVal |-> pkVal, skVal |-> skVal],
               QueryCommand(Undefined, "#PK = :pkVal AND begins_with(#SK , :skVal)",
                            ("#PK" :> "PK") @@ ("#SK" :> "SK"),
                            (":pkVal" :> [S |-> pkVal]) @@ (":skVal" :> [S |-> skVal])))

getItemsWithSKBetween ==
    \E keyVals \in RangeArgs, a \in BetweenArgs :
        Settle("getItemsWithSKBetween",
               [indexName |-> a[5], keyVals |-> keyVals,
                partitionKeyName |-> a[1], sortKeyName |-> a[2],
                partitionKeyType |-> a[3], sortKeyType |-> a[4]],
               getItemsWithSKBetweenCommand(keyVals, a[1], a[2], a[3], a[4], a[5]))

getItemBySK ==
    \E skVal \in KeyValues :
        Settle("getItemBySK", [skVal |-> skVal],
               QueryCommand(INDEX_NAME, "#SK = :skVal",
                            "#SK" :> "SK", ":skVal" :> [S |-> skVal]))

getAllByPKPrefixAndSK ==
    \E pkPrefix \in {StrA}, skVal \in KeyValues :
        Settle("getAllByPKPrefixAndSK", [pkPrefix |-> pkPrefix, skVal |-> skVal],
               QueryCommand(INDEX_NAME, "#SK = :skVal and begins_with(#PK, :pkPrefix)",
                            ("#SK" :> "SK") @@ ("#PK" :> "PK"),
                            (":skVal" :> [S |-> skVal]) @@ (":pkPrefix" :> [S |-> pkPrefix])))

\* A request answered: the service applies the command to the table as it
\* is then, and the method runs on from its await to its end.
SendAnswered ==
    /\ \E c \in Slots, outcome \in DynOutcomes :
         /\ calls[c].op \in {"putItem", "deleteItem"} \cup ReadOps
         /\ IsPending(calls[c])
         /\ LET cmd == calls[c].cmd
                reply == Send(cmd, outcome, table)
            IN /\ table' = TableAfter(cmd, reply, table)
               /\ calls' = Put(calls, c, [calls[c] EXCEPT
                     !.reqs = Answered(@, IF reply.kind = "ok" THEN Ok ELSE reply.error),
                     !.result = ResultOf(calls[c].op, reply)])
    /\ UNCHANGED <<ddb, hvars, wvars>>

DynDbNext ==
    \/ init
    \/ putItem
    \/ deleteItem
    \/ getItem
    \/ getItemByPK
    \/ getItemsByPK
    \/ getItemsWithSKBeginning
    \/ getItemsWithSKBetween
    \/ getItemBySK
    \/ getAllByPKPrefixAndSK
    \/ SendAnswered

(***************************************************************************)
(* Specifications                                                          *)
(***************************************************************************)
Init == HandlerInit /\ WrappersInit /\ SsmInit /\ S3Init /\ DynDbInit

\* The same with an empty table, for the runs that never use the table
InitNoTable == Init /\ table = {}

\* The module and its handler
SpecHandler == InitNoTable /\ [][HandlerNext]_vars

\* The queue wrapper alone
SpecSqs == InitNoTable /\ [][SqsNext]_vars

\* The parameter-store wrapper alone
SpecSsm == InitNoTable /\ [][SsmNext]_vars

\* The queue wrapper and the parameter-store wrapper, their calls in flight
\* together
SpecWrappers == InitNoTable /\ [][SqsNext \/ SsmNext]_vars

\* The object-store wrapper alone
SpecS3 == InitNoTable /\ [][S3Next]_vars

\* The table access layer alone
SpecDynDb == Init /\ [][DynDbNext]_vars

\* Most calls a run of all classes together makes
MaxCallsARun == 1

\* Every wrapper class in one process, on any table: the clients of the
\* classes are set up in any order, before, during and after the calls, and
\* the operations of all classes are called; a run makes at most
\* MaxCallsARun calls (the record of a call that settled stays, and there
\* are no more records than that).
SpecAllWrappers ==
    Init /\
    [][\/ /\ SqsNext
          /\ \A c \in Slots : (calls[c] # NoCall /\ ~IsPending(calls[c])) => calls'[c] = calls[c]
          /\ Cardinality({c \in Slots : calls'[c] # NoCall}) <= MaxCallsARun
       \/ /\ SsmNext
          /\ \A c \in Slots : (calls[c] # NoCall /\ ~IsPending(calls[c])) => calls'[c] = calls[c]
          /\ Cardinality({c \in Slots : calls'[c] # NoCall}) <= MaxCallsARun
       \/ /\ S3Next
          /\ \A c \in Slots : (calls[c] # NoCall /\ ~IsPending(calls[c])) => calls'[c] = calls[c]
          /\ Cardinality({c \in Slots : calls'[c] # NoCall}) <= MaxCallsARun
       \/ /\ DynDbNext
          /\ \A c \in Slots : (calls[c] # NoCall /\ ~IsPending(calls[c])) => calls'[c] = calls[c]
          /\ Cardinality({c \in Slots : calls'[c] # NoCall}) <= MaxCallsARun]_vars

(***************************************************************************)
(* Properties                                                              *)
(***************************************************************************)

\* C1: when the handler has returned, the response is 400 with the collected
\* errors as its body if and only if at least one of the four steps failed,
\* and 200 with the fixed greeting if and only if none failed; the errors
\* collected are those of the failed steps, in step order; and the handler's
\* promise is never rejected.
C1_ResponseReportsFailures ==
    /\ h_settled # "rejected"
    /\ h_pc = "done" =>
         /\ h_settled = "resolved"
         /\ (failedSteps # {}) <=>
               (response.statusCode = 400 /\ response.body = Stringify(errors))
         /\ (failedSteps = {}) <=>
               (response.statusCode = 200 /\ response.body = Greeting)
         /\ response.statusCode \in {200, 400}
         /\ Len(errors) = Cardinality(failedSteps)
         /\ {errors[i].step : i \in 1..Len(errors)} = failedSteps

SqsOp == "writeMessageBatchToFifoQueue"
SsmOps == {"getParamValue", "getParamObject"}

\* The requests of a call that failed
Failed(call) == {i \in 1..Len(call.reqs) : call.reqs[i].outcome \notin {Ok, InFlight}}

\* C3: in a call of any wrapper (queue, parameter store, object store, table),
\* a failed request is the last request the call issues and the call rejects
\* with that request's error; only the last request of a call can be in
\* flight; the batches writeMessageBatchToFifoQueue has sent are the first
\* chunks of the input, in order, each once (so none after a failed one); a
\* parameter call sends at most one GetParameter request; getListOfFileKeys
\* sends a further request only after a listing that succeeded; and a call of
\* any other operation sends at most one request.
C3_NoRetry ==
    \A c \in Slots :
        LET call == calls[c]
        IN /\ \A i \in 1..Len(call.reqs) :
                /\ i \in Failed(call) =>
                      /\ i = Len(call.reqs)
                      /\ call.result = Rejected(call.reqs[i].outcome)
                /\ call.reqs[i].outcome = InFlight =>
                      /\ i = Len(call.reqs)
                      /\ call.result = Pending
           /\ call.op = SqsOp =>
                LET cs == chunk(call.args.messages, 10)
                IN /\ Len(call.reqs) <= Len(cs)
                   /\ \A i \in 1..Len(call.reqs) :
                         call.reqs[i].cmd.Entries = Entries(cs[i])
           /\ call.op \in SsmOps =>
                /\ Len(call.reqs) <= 1
                /\ \A i \in 1..Len(call.reqs) :
                      call.reqs[i].cmd.Name = call.args.paramName
           /\ call.op = "getListOfFileKeys" =>
                \A i \in 1..Len(call.reqs) :
                    /\ i < Len(call.reqs) => call.reqs[i].outcome = Ok
                    /\ call.reqs[i].cmd.name = "ListObjectsV2"
           /\ call.op \notin {SqsOp, "getListOfFileKeys"} => Len(call.reqs) <= 1

C3_Witness ==
    \E c \in Slots :
        /\ calls[c].op = SqsOp
        /\ Len(calls[c].args.messages) > 20
        /\ Len(calls[c].reqs) = 2
        /\ calls[c].reqs[1].outcome = Ok
        /\ calls[c].result = Rejected("Throttling")

RECURSIVE Flatten(_)
Flatten(seqs) == IF seqs = <<>> THEN <<>> ELSE Head(seqs) \o Flatten(Tail(seqs))

\* The messages of a batch request, as the caller gave them
MessagesOf(req) ==
    [j \in 1..Len(req.cmd.Entries) |->
        [message |-> req.cmd.Entries[j].MessageBody,
         groupId |-> req.cmd.Entries[j].MessageGroupId]]

\* C4: a call of writeMessageBatchToFifoQueue with n messages that resolved
\* has sent ceil(n/10) batch requests (none for n = 0), each of 1 to 10
\* entries, all successful; the batches in send order, concatenated, are the
\* input messages in order with their bodies and group ids; and in each batch
\* the Ids are msg-0, msg-1, ..., pairwise distinct.  The requests go out one
\* after another: at most one of a call is in flight.
C4_Batching ==
    \A c \in Slots :
        LET call == calls[c]
        IN call.op = SqsOp =>
             /\ Cardinality({i \in 1..Len(call.reqs) :
                                call.reqs[i].outcome = InFlight}) <= 1
             /\ call.result.kind = "resolved" =>
                  LET n == Len(call.args.messages)
                  IN /\ Len(call.reqs) = (n + 9) \div 10
                     /\ \A i \in 1..Len(call.reqs) :
                           LET es == call.reqs[i].cmd.Entries
                           IN /\ call.reqs[i].outcome = Ok
                              /\ Len(es) >= 1 /\ Len(es) <= 10
                              /\ \A j \in 1..Len(es) : es[j].Id = <<"msg-", j - 1>>
                              /\ \A j, k \in 1..Len(es) : es[j].Id = es[k].Id => j = k
                     /\ Flatten([i \in 1..Len(call.reqs) |-> MessagesOf(call.reqs[i])])
                           = call.args.messages

C4_Witness ==
    \E c \in Slots :
        /\ calls[c].op = SqsOp
        /\ calls[c].result.kind = "resolved"
        /\ Len(calls[c].args.messages) > 20
        /\ Len(calls[c].reqs) = 3
        /\ Len(calls[c].reqs[3].cmd.Entries) = 1

\* The items of the table whose attribute attr has the given value
ItemsWith(attr, value) == {it \in table : ValOf(it[attr]) = value}
HasKeyAttribute(record) == DOMAIN record \cap {"PK", "SK"} # {}

\* C2: no record a read operation of DynDb returns carries a PK or an SK
\* attribute.
C2_ReturnedRecordsHaveNoKey ==
    \A c \in Slots :
        (calls[c].op \in ReadOps /\ calls[c].result.kind = "resolved") =>
            LET result == calls[c].result
            IN /\ result.type = "item" => ~HasKeyAttribute(result.item)
               /\ result.type = "items" =>
                     \A i \in 1..Len(result.items) : ~HasKeyAttribute(result.items[i])

\* In this step the call in slot c settles
SettlesNow(c) ==
    /\ calls'[c] # calls[c]
    /\ calls'[c].result.kind \in {"resolved", "rejected"}

\* The transport of a request of the call failed
TransportFailed(call) ==
    \E i \in 1..Len(call.reqs) : call.reqs[i].outcome \in DynOutcomes \ {Ok}

\* C5: getItemByPK(pkVal), unless the transport of its request failed,
\* returns undefined when no item of the table has partition key pkVal, that
\* item when exactly one has, and throws when more than one has.
C5_GetItemByPK ==
    [][\A c \in Slots :
         (/\ SettlesNow(c)
          /\ calls'[c].op = "getItemByPK"
          /\ ~TransportFailed(calls'[c])) =>
            LET found == ItemsWith(KeySchema.hash, calls'[c].args.pkVal)
                result == calls'[c].result
            IN /\ found = {} => result = UndefinedResult
               /\ Cardinality(found) = 1 =>
                     \E it \in found :
                        result \in {ItemResult(unmarshall(it)),
                                    ItemResult(deleteKeyFromItem(unmarshall(it)))}
               /\ Cardinality(found) > 1 => result.kind = "rejected"]_vars

\* C6: getItemBySK(skVal), when its request was sent and its transport did
\* not fail, throws if more than one item of the table has sort key skVal
\* and returns undefined if none has.
C6_GetItemBySK ==
    [][\A c \in Slots :
         (/\ SettlesNow(c)
          /\ calls'[c].op = "getItemBySK"
          /\ Len(calls'[c].reqs) = 1
          /\ ~TransportFailed(calls'[c])) =>
            LET found == ItemsWith(KeySchema.range, calls'[c].args.skVal)
                result == calls'[c].result
            IN /\ found = {} => result = UndefinedResult
               /\ Cardinality(found) > 1 => result.kind = "rejected"]_vars

\* C7: getItemsByPK and getItemsWithSKBetween return undefined when the
\* query was answered with no item.
C7_UndefinedWhenNothingFound ==
    [][\A c \in Slots :
         (/\ SettlesNow(c)
          /\ calls'[c].op \in {"getItemsByPK", "getItemsWithSKBetween"}
          /\ Len(calls'[c].reqs) = 1
          /\ calls'[c].reqs[1].outcome = Ok
          /\ Service(calls'[c].cmd, table) = ServiceOk(<<>>))
            => calls'[c].result = UndefinedResult]_vars

\* C8: the command getItemBySK and getAllByPKPrefixAndSK build names the
\* index GSI1; the command getItemByPK, getItemsByPK and
\* getItemsWithSKBeginning build names no index and the key attributes PK/SK;
\* the command getItemsWithSKBetween builds names no index when indexName is
\* undefined or empty and exactly indexName otherwise, and with the other
\* arguments left out it names PK/SK with string-typed values.  The request
\* a call issues carries the command it built.
C8_IndexUsage ==
    \A c \in Slots :
        LET call == calls[c]
        IN call.op \in ReadOps =>
             /\ \A i \in 1..Len(call.reqs) : call.reqs[i].cmd = call.cmd
             /\ call.op \in {"getItemBySK", "getAllByPKPrefixAndSK"} =>
                   call.cmd.IndexName = "GSI1"
             /\ call.op \in {"getItemByPK", "getItemsByPK", "getItemsWithSKBeginning"} =>
                   /\ call.cmd.IndexName = Undefined
                   /\ \A k \in DOMAIN call.cmd.ExpressionAttributeNames :
                         /\ k \in {"#PK", "#SK"}
                         /\ call.cmd.ExpressionAttributeNames[k]
                               = (IF k = "#PK" THEN "PK" ELSE "SK")
                   /\ \A v \in DOMAIN call.cmd.ExpressionAttributeValues :
                         DOMAIN call.cmd.ExpressionAttributeValues[v] = {"S"}
             /\ call.op = "getItemsWithSKBetween" =>
                   /\ call.args.indexName \in {Undefined, ""} =>
                         call.cmd.IndexName = Undefined
                   /\ call.args.indexName \notin {Undefined, ""} =>
                         call.cmd.IndexName = call.args.indexName
                   /\ (/\ call.args.partitionKeyName = Undefined
                       /\ call.args.sortKeyName = Undefined) =>
                         /\ call.cmd.ExpressionAttributeNames["#PK"] = "PK"
                         /\ call.cmd.ExpressionAttributeNames["#SK"] = "SK"
                   /\ (/\ call.args.partitionKeyType = Undefined
                       /\ call.args.sortKeyType = Undefined) =>
                         \A v \in DOMAIN call.cmd.ExpressionAttributeValues :
                            DOMAIN call.cmd.ExpressionAttributeValues[v] = {"S"}

C8_Witness ==
    \E c \in Slots :
        /\ calls[c].op = "getItemsWithSKBetween"
        /\ calls[c].args.indexName = ""
        /\ calls[c].args.partitionKeyName = Undefined
        /\ Len(calls[c].reqs) = 1
        /\ calls[c].reqs[1].cmd.IndexName = Undefined
        /\ calls[c].reqs[1].cmd.ExpressionAttributeNames["#PK"] = "PK"
        /\ calls[c].reqs[1].outcome = "ValidationException"
        /\ calls[c].result.kind = "rejected"

\* No parameter call is in flight
Alone == \A c \in Slots : ~(IsPending(calls[c]) /\ calls[c].op \in SsmOps)

\* In this step a caller starts, in slot c, a parameter call for a name a
\* getParamValue of which has completed successfully, while no other
\* parameter call is in flight
Sequel(c) ==
    /\ ~IsPending(calls[c])
    /\ calls'[c] # calls[c]
    /\ calls'[c].op \in SsmOps
    /\ known[calls'[c].args.paramName] # NotKnown
    /\ Alone

\* In this step the call in slot c rejects with the error of its request
FetchFails(c) ==
    /\ calls[c].op \in SsmOps
    /\ IsPending(calls[c])
    /\ Failed(calls'[c]) # {}

\* C9: once getParamValue(name) has completed successfully, a later call of
\* getParamValue(name) or getParamObject(name) that is not concurrent with
\* another sends no request and gives the value that call returned
\* (getParamObject: what it makes of that value); and the step in which a
\* fetch fails leaves the cache as it was.
C9_CachedAfterFirstFetch ==
    [][\A c \in Slots :
         /\ Sequel(c) =>
               /\ calls'[c].reqs = <<>>
               /\ calls'[c].result =
                     ParamResult(calls'[c].op,
                                 Resolved(known[calls'[c].args.paramName], FALSE))
         /\ FetchFails(c) => cache' = cache]_vars

\* C10: whenever putItem has resolved without error, a PutItem request for
\* the item was sent and succeeded.
C10_PutItemThrowsIfItFails ==
    \A c \in Slots :
        (calls[c].op = "putItem" /\ calls[c].result.kind = "resolved") =>
            /\ Len(calls[c].reqs) = 1
            /\ calls[c].reqs[1].cmd = PutItemCommand(calls[c].args.item)
            /\ calls[c].reqs[1].outcome = Ok

\* C11: when the PutObject request of createFileInBucket fails, the call has
\* logged 'PutObject failed' with that error, and rejects with that error.
C11_LogsAndRethrows ==
    \A c \in Slots :
        calls[c].op = "createFileInBucket" =>
            \A i \in Failed(calls[c]) :
                /\ calls[c].logged = <<LogLine("PutObject failed", calls[c].reqs[i].outcome)>>
                /\ calls[c].result = Rejected(calls[c].reqs[i].outcome)

====
